---- MODULE Spec2Model ----
(***************************************************************************)
(* Model of src/main.py: the FastAPI handlers download_and_transcribe_audio *)
(* (POST /transcribe) and fallback_to_captions (GET /captions), run by     *)
(* several concurrent requests.  Every external call (yt-dlp, the          *)
(* AssemblyAI upload / transcript endpoints, youtube-transcript-api) is a  *)
(* separate step whose answer is drawn from a small set.                   *)
(***************************************************************************)
EXTENDS Integers, Sequences, FiniteSets, TLC

(* ---------------------------- bounds ----------------------------------- *)
\* number of concurrent requests
NumProcs == 2
\* the count of status checks kept per request is exact up to this value
\* and stays there afterwards; the loop itself is not bounded
MaxPolls == 1

Procs == 1..NumProcs

(* ------------------------ JSON / Python values ------------------------- *)
None == [t |-> "null"]
Str(s) == [t |-> "str", s |-> s]
List(l) == [t |-> "list", l |-> l]
EmptyDict == [k \in {} |-> None]

\* Python truthiness, as used by "if not x"
Truthy(v) ==
    CASE v.t = "null" -> FALSE
      [] v.t = "str"  -> v.s # ""
      [] v.t = "list" -> v.l # <<>>

\* dict.get(k, default)
Get(d, k, default) == IF k \in DOMAIN d THEN d[k] ELSE default

(* ------------------------ responses of a handler ----------------------- *)
NoResponse == [kind |-> "none", status_code |-> 0, detail |-> "", body |-> EmptyDict]
HTTPException(code, text) ==
    [kind |-> "HTTPException", status_code |-> code, detail |-> text, body |-> EmptyDict]
Return(b) == [kind |-> "return", status_code |-> 200, detail |-> "", body |-> b]
\* an exception no handler code catches
Unhandled(e) == [kind |-> "unhandled", status_code |-> 0, detail |-> e, body |-> EmptyDict]

(* ------------------------ the inputs ----------------------------------- *)
Payloads ==
    { EmptyDict,
      [video_id |-> Str("")],
      [video_id |-> Str("abc123")],
      [video_id |-> Str("xyz789")] }

QueryIds == {"abc123", "xyz789"}

\* os.getenv("ASSEMBLYAI_API_KEY"): None when the variable is not set
KeyValues == {None, Str("key")}

\* uuid.uuid4(): a value no earlier call returned
Uuid4(issued) == "uuid" \o ToString(Cardinality(issued) + 1)

Raise(e) == [exception |-> e]
IsRaise(o) == DOMAIN o = {"exception"}

DownloadOutcomes == {"ok", "CalledProcessError", "OSError"}

UploadOutcomes ==
    { [upload_url |-> Str("https://cdn.assemblyai.com/upload/1")],
      [error |-> Str("bad request")],
      Raise("ConnectionError") }

SubmitOutcomes ==
    { [id |-> Str("job1")],
      [error |-> Str("bad request")],
      Raise("ConnectionError") }

PollOutcomes ==
    { [status |-> Str("processing")],
      EmptyDict,
      [status |-> Str("error")],
      [status |-> Str("completed"), text |-> Str("Hi there"),
       paragraphs |-> List(<<"Hi there">>), utterances |-> List(<<"A: Hi there">>)],
      [status |-> Str("completed")],
      Raise("ConnectionError") }

\* what the caption service publishes for a video: abc123 has two segments,
\* any other video has no captions and get_transcript raises
Seg(txt, st) == [text |-> txt, start |-> st, duration |-> 1]
PublishedCaptions(vid) ==
    CASE vid = "abc123" -> [ok |-> TRUE, segments |-> <<Seg("Hello", 0), Seg("world", 1)>>]
      [] OTHER          -> [ok |-> FALSE, segments |-> <<>>]

(* ------------------------ pure helpers --------------------------------- *)
\* " ".join(seg["text"] for seg in segments)
RECURSIVE Join(_)
Join(segments) ==
    IF Len(segments) = 0 THEN ""
    ELSE IF Len(segments) = 1 THEN segments[1].text
    ELSE segments[1].text \o " " \o Join(Tail(segments))

OutputPathFixed(u) == "/tmp/audio.mp3"
\* f"/tmp/{uuid.uuid4()}.mp3"
OutputPath(u) == "/tmp/" \o u \o ".mp3"

\* f"https://youtu.be/{video_id}"
WatchUrl(vid) == "https://youtu.be/" \o vid.s

\* the bytes yt-dlp leaves at the output path
Audio(url) == <<"mp3", url>>

KeyConfiguredAlways(key) == TRUE
\* "if not ASSEMBLYAI_API_KEY" is false
KeyConfigured(key) == Truthy(key)

DownloadNextRetry(outcome) == IF outcome = "ok" THEN "upload" ELSE "download"
\* where the handler goes after subprocess.run
DownloadNext(outcome) == IF outcome = "ok" THEN "upload" ELSE "done"

UploadNextUngated(upload_url) == "submit"
\* "if not upload_url: raise"
UploadNext(upload_url) == IF Truthy(upload_url) THEN "submit" ELSE "done"

\* "if not transcript_id: raise"
SubmitNext(transcript_id) == IF Truthy(transcript_id) THEN "poll" ELSE "done"

PollNextIgnoresError(status) ==
    IF status = Str("completed") THEN "return" ELSE "sleep"
\* the dispatch on status inside the while loop
PollNext(status) ==
    IF status = Str("completed") THEN "return"
    ELSE IF status = Str("error") THEN "raise"
    ELSE "sleep"

\* the dict returned on status "completed"
TranscriptBody(status_resp) ==
    [transcript     |-> Get(status_resp, "text", None),
     paragraphs     |-> Get(status_resp, "paragraphs", List(<<>>)),
     speaker_labels |-> Get(status_resp, "utterances", List(<<>>))]

(* ------------------------ state ---------------------------------------- *)
VARIABLES
    ASSEMBLYAI_API_KEY,   \* module-level configuration
    files,                \* the file system under /tmp: path -> bytes
    issued,               \* the uuids uuid4() has handed out
    route,                \* per request: which handler runs
    pc,                   \* per request: position in the handler
    video_id,
    output_path,
    upload_url,
    transcript_id,
    status_resp,          \* the answer to the latest status check
    response,             \* what the request's caller receives
    sent,                 \* the bytes the request posted to /v2/upload
    calls,                \* per request: external calls made so far
    waited                \* per request: sleeps since the last status check

vars == <<ASSEMBLYAI_API_KEY, files, issued, route, pc, video_id, output_path,
          upload_url, transcript_id, status_resp, response, sent, calls, waited>>

\* everything one request owns
Local(p) == <<route[p], pc[p], video_id[p], output_path[p], upload_url[p],
             transcript_id[p], status_resp[p], response[p], sent[p], calls[p],
             waited[p]>>

NoCalls == [download |-> 0, upload |-> 0, submit |-> 0, poll |-> 0, captions |-> 0]
NoBytes == <<>>

Init ==
    /\ ASSEMBLYAI_API_KEY \in KeyValues
    /\ files = [f \in {} |-> NoBytes]
    /\ issued = {}
    /\ route = [p \in Procs |-> "none"]
    /\ pc = [p \in Procs |-> "idle"]
    /\ video_id = [p \in Procs |-> None]
    /\ output_path = [p \in Procs |-> ""]
    /\ upload_url = [p \in Procs |-> None]
    /\ transcript_id = [p \in Procs |-> None]
    /\ status_resp = [p \in Procs |-> EmptyDict]
    /\ response = [p \in Procs |-> NoResponse]
    /\ sent = [p \in Procs |-> NoBytes]
    /\ calls = [p \in Procs |-> NoCalls]
    /\ waited = [p \in Procs |-> 0]

Bump(p, what) == [calls EXCEPT ![p][what] = @ + 1]
BumpPoll(p) == [calls EXCEPT ![p].poll = IF @ < MaxPolls THEN @ + 1 ELSE @]

(* ------------------------ POST /transcribe ----------------------------- *)
\* lines 90-97: validation and the choice of the temporary path
Transcribe(p, payload) ==
    /\ pc[p] = "idle"
    /\ route' = [route EXCEPT ![p] = "/transcribe"]
    /\ LET vid == Get(payload, "video_id", None) IN
       /\ video_id' = [video_id EXCEPT ![p] = vid]
       /\ IF ~Truthy(vid)
          THEN /\ response' = [response EXCEPT ![p] =
                      HTTPException(400, "Missing 'video_id' in request body")]
               /\ pc' = [pc EXCEPT ![p] = "done"]
               /\ UNCHANGED <<issued, output_path>>
          ELSE IF ~KeyConfigured(ASSEMBLYAI_API_KEY)
          THEN /\ response' = [response EXCEPT ![p] =
                      HTTPException(500, "ASSEMBLYAI_API_KEY not set")]
               /\ pc' = [pc EXCEPT ![p] = "done"]
               /\ UNCHANGED <<issued, output_path>>
          ELSE /\ LET u == Uuid4(issued) IN
                    /\ issued' = issued \cup {u}
                    /\ output_path' = [output_path EXCEPT ![p] = OutputPath(u)]
               /\ pc' = [pc EXCEPT ![p] = "download"]
               /\ UNCHANGED response
    /\ UNCHANGED <<ASSEMBLYAI_API_KEY, files, upload_url, transcript_id,
                   status_resp, sent, calls, waited>>

\* lines 98-107: yt-dlp
Download(p, outcome) ==
    /\ pc[p] = "download"
    /\ calls' = Bump(p, "download")
    /\ pc' = [pc EXCEPT ![p] = DownloadNext(outcome)]
    /\ files' = IF outcome = "ok"
                THEN (output_path[p] :> Audio(WatchUrl(video_id[p]))) @@ files
                ELSE files
    /\ response' = IF outcome = "ok" THEN response
                   ELSE IF outcome = "CalledProcessError"
                   THEN [response EXCEPT ![p] =
                            HTTPException(500, "yt-dlp failed: " \o outcome)]
                   ELSE [response EXCEPT ![p] = Unhandled(outcome)]
    /\ UNCHANGED <<ASSEMBLYAI_API_KEY, issued, route, video_id, output_path,
                   upload_url, transcript_id, status_resp, sent, waited>>

\* lines 110-118: open the file and post it
Upload(p, outcome) ==
    /\ pc[p] = "upload"
    /\ IF output_path[p] \notin DOMAIN files
       THEN /\ response' = [response EXCEPT ![p] = Unhandled("FileNotFoundError")]
            /\ pc' = [pc EXCEPT ![p] = "done"]
            /\ UNCHANGED <<sent, calls, upload_url>>
       ELSE /\ sent' = [sent EXCEPT ![p] = files[output_path[p]]]
            /\ calls' = Bump(p, "upload")
            /\ IF IsRaise(outcome)
               THEN /\ response' = [response EXCEPT ![p] = Unhandled(outcome.exception)]
                    /\ pc' = [pc EXCEPT ![p] = "done"]
                    /\ UNCHANGED upload_url
               ELSE LET url == Get(outcome, "upload_url", None) IN
                    /\ upload_url' = [upload_url EXCEPT ![p] = url]
                    /\ pc' = [pc EXCEPT ![p] = UploadNext(url)]
                    /\ response' = IF Truthy(url) THEN response
                                   ELSE [response EXCEPT ![p] =
                                            HTTPException(500, "AssemblyAI upload error")]
    /\ UNCHANGED <<ASSEMBLYAI_API_KEY, files, issued, route, video_id, output_path,
                   transcript_id, status_resp, waited>>

\* lines 121-128: request the transcription
Submit(p, outcome) ==
    /\ pc[p] = "submit"
    /\ calls' = Bump(p, "submit")
    /\ IF IsRaise(outcome)
       THEN /\ response' = [response EXCEPT ![p] = Unhandled(outcome.exception)]
            /\ pc' = [pc EXCEPT ![p] = "done"]
            /\ UNCHANGED transcript_id
       ELSE LET id == Get(outcome, "id", None) IN
            /\ transcript_id' = [transcript_id EXCEPT ![p] = id]
            /\ pc' = [pc EXCEPT ![p] = SubmitNext(id)]
            /\ response' = IF Truthy(id) THEN response
                           ELSE [response EXCEPT ![p] =
                                    HTTPException(500, "Transcription request failed")]
    /\ UNCHANGED <<ASSEMBLYAI_API_KEY, files, issued, route, video_id, output_path,
                   upload_url, status_resp, sent, waited>>

\* lines 132-145: one status check
Poll(p, outcome) ==
    /\ pc[p] = "poll"
    /\ calls' = BumpPoll(p)
    /\ waited' = [waited EXCEPT ![p] = 0]
    /\ IF IsRaise(outcome)
       THEN /\ response' = [response EXCEPT ![p] = Unhandled(outcome.exception)]
            /\ pc' = [pc EXCEPT ![p] = "done"]
            /\ UNCHANGED status_resp
       ELSE LET st == Get(outcome, "status", None)
                next == PollNext(st) IN
            /\ status_resp' = [status_resp EXCEPT ![p] = outcome]
            /\ pc' = [pc EXCEPT ![p] = IF next = "sleep" THEN "sleep" ELSE "done"]
            /\ response' =
                 IF next = "return"
                 THEN [response EXCEPT ![p] = Return(TranscriptBody(outcome))]
                 ELSE IF next = "raise"
                 THEN [response EXCEPT ![p] = HTTPException(500, "Transcription failed")]
                 ELSE response
    /\ UNCHANGED <<ASSEMBLYAI_API_KEY, files, issued, route, video_id, output_path,
                   upload_url, transcript_id, sent>>

\* line 146: time.sleep(5)
Sleep(p) ==
    /\ pc[p] = "sleep"
    /\ waited' = [waited EXCEPT ![p] = @ + 1]
    /\ pc' = [pc EXCEPT ![p] = "poll"]
    /\ UNCHANGED <<ASSEMBLYAI_API_KEY, files, issued, route, video_id, output_path,
                   upload_url, transcript_id, status_resp, response, sent, calls>>

(* ------------------------ GET /captions -------------------------------- *)
\* lines 158-163
Captions(p, vid) ==
    /\ pc[p] = "idle"
    /\ route' = [route EXCEPT ![p] = "/captions"]
    /\ video_id' = [video_id EXCEPT ![p] = Str(vid)]
    /\ calls' = Bump(p, "captions")
    /\ pc' = [pc EXCEPT ![p] = "done"]
    /\ LET got == PublishedCaptions(vid) IN
       response' = IF got.ok
                   THEN [response EXCEPT ![p] =
                            Return([captions |-> Str(Join(got.segments)),
                                    segments |-> List(got.segments)])]
                   ELSE [response EXCEPT ![p] =
                            HTTPException(500, "Captions error: NoTranscriptFound")]
    /\ UNCHANGED <<ASSEMBLYAI_API_KEY, files, issued, output_path, upload_url,
                   transcript_id, status_resp, sent, waited>>

(* ------------------------ specifications ------------------------------- *)
Next ==
    \/ \E p \in Procs, payload \in Payloads : Transcribe(p, payload)
    \/ \E p \in Procs, o \in DownloadOutcomes : Download(p, o)
    \/ \E p \in Procs, o \in UploadOutcomes : Upload(p, o)
    \/ \E p \in Procs, o \in SubmitOutcomes : Submit(p, o)
    \/ \E p \in Procs, o \in PollOutcomes : Poll(p, o)
    \/ \E p \in Procs : Sleep(p)
    \/ \E p \in Procs, vid \in QueryIds : Captions(p, vid)

Spec == Init /\ [][Next]_vars

\* every request that can take a step eventually takes one: the server runs
\* each handler to its next statement, and each external call answers
FairSpec ==
    /\ Spec
    /\ \A p \in Procs :
         /\ WF_vars(\E o \in DownloadOutcomes : Download(p, o))
         /\ WF_vars(\E o \in UploadOutcomes : Upload(p, o))
         /\ WF_vars(\E o \in SubmitOutcomes : Submit(p, o))
         /\ WF_vars(\E o \in PollOutcomes : Poll(p, o))
         /\ WF_vars(Sleep(p))

(* ------------------------ vocabulary of the properties ----------------- *)
IsTranscribe(p) == route[p] = "/transcribe"
Finished(p) == pc[p] = "done"
Failed(p) == response[p].kind \in {"HTTPException", "unhandled"}
Returned(p) == response[p].kind = "return"
KeySet == ASSEMBLYAI_API_KEY.t = "str" /\ ASSEMBLYAI_API_KEY.s # ""
HasVideoId(p) == video_id[p].t = "str" /\ video_id[p].s # ""
Status(p) == Get(status_resp[p], "status", None)
InLoop(p) == pc[p] \in {"poll", "sleep"}
NoExternalAction(p) ==
    /\ calls[p] = NoCalls
    /\ sent[p] = NoBytes
    /\ output_path[p] \notin DOMAIN files
\* the download ran and the handler ended without reaching the upload
DownloadFailed(p) ==
    IsTranscribe(p) /\ Finished(p) /\ calls[p].download = 1 /\ calls[p].upload = 0
TranscriptKeys == {"transcript", "paragraphs", "speaker_labels"}

(* ------------------------ C1 ------------------------------------------- *)
\* C1: with a video_id and a key, a failure of the primary path is never the
\* end of the invocation: an invocation that ended in an error has attempted
\* the caption retrieval.
C1_FailureFallsBackToCaptions ==
    \A p \in Procs :
        (IsTranscribe(p) /\ HasVideoId(p) /\ KeySet /\ Finished(p) /\ Failed(p))
            => calls[p].captions >= 1

(* ------------------------ C2 ------------------------------------------- *)
\* C2: when the audio extraction fails and the caption service has segments
\* for the video, the invocation returns the caption_fallback result: the
\* segment texts joined by single spaces, empty paragraphs and speaker_labels.
C2_DownloadFailureReturnsCaptions ==
    \A p \in Procs :
        (DownloadFailed(p) /\ PublishedCaptions(video_id[p].s).ok)
            => response[p] =
                 Return([transcript     |-> Str(Join(PublishedCaptions(video_id[p].s).segments)),
                         paragraphs     |-> List(<<>>),
                         speaker_labels |-> List(<<>>),
                         source         |-> Str("caption_fallback")])

(* ------------------------ C3 ------------------------------------------- *)
\* C3: a result returned after a check observed "completed" carries
\* source = audio_transcription and a non-empty transcript.
C3_ResultHasSourceAndTranscript ==
    \A p \in Procs :
        (IsTranscribe(p) /\ Returned(p) /\ Status(p) = Str("completed"))
            => /\ Get(response[p].body, "source", None) = Str("audio_transcription")
               /\ Truthy(Get(response[p].body, "transcript", None))

(* ------------------------ C4 ------------------------------------------- *)
\* C4: an invocation that is in the polling loop eventually leaves it, whatever
\* the statuses the job reports.
C4_PollingTerminates ==
    \A p \in Procs : InLoop(p) ~> Finished(p)

(* ------------------------ C5 ------------------------------------------- *)
\* C5 as stated: without the key every /transcribe invocation answers
\* 500 "ASSEMBLYAI_API_KEY not set" and has made no external call.
C5_NoKeyAlwaysConfigurationError ==
    \A p \in Procs :
        (IsTranscribe(p) /\ ~KeySet)
            => /\ response[p] = HTTPException(500, "ASSEMBLYAI_API_KEY not set")
               /\ NoExternalAction(p)

\* C5 amended: without the key a /transcribe invocation that carries a
\* non-empty video_id answers 500 "ASSEMBLYAI_API_KEY not set", one with a
\* missing or empty video_id answers 400; in both no download, upload,
\* submission or status check ever occurs.
C5_NoKeyFailsBeforeAnyCall ==
    \A p \in Procs :
        (IsTranscribe(p) /\ ~KeySet)
            => /\ Finished(p)
               /\ NoExternalAction(p)
               /\ response[p] =
                    IF HasVideoId(p)
                    THEN HTTPException(500, "ASSEMBLYAI_API_KEY not set")
                    ELSE HTTPException(400, "Missing 'video_id' in request body")

C5_Witness ==
    \E p \in Procs :
        /\ IsTranscribe(p) /\ ~KeySet /\ HasVideoId(p)
        /\ response[p] = HTTPException(500, "ASSEMBLYAI_API_KEY not set")

(* ------------------------ C6 ------------------------------------------- *)
\* C6: a result returned after "completed" copies text, paragraphs and
\* utterances of that answer, and a field the answer lacks appears as an empty
\* value (empty string, empty list), never as null.
C6_FieldsCopiedOrEmpty ==
    \A p \in Procs :
        (IsTranscribe(p) /\ Returned(p))
            => /\ DOMAIN response[p].body = TranscriptKeys
               /\ response[p].body["transcript"] = Get(status_resp[p], "text", Str(""))
               /\ response[p].body["paragraphs"] = Get(status_resp[p], "paragraphs", List(<<>>))
               /\ response[p].body["speaker_labels"] = Get(status_resp[p], "utterances", List(<<>>))
               /\ \A k \in TranscriptKeys : response[p].body[k] # None

(* ------------------------ C7 ------------------------------------------- *)
\* C7 as stated: every finished invocation ran at most one download, submitted
\* at most one job and produced exactly one result.
C7_ExactlyOneResult ==
    \A p \in Procs :
        (IsTranscribe(p) /\ Finished(p))
            => /\ calls[p].download <= 1
               /\ calls[p].submit <= 1
               /\ Returned(p)

\* C7 amended: every finished invocation ran at most one download and
\* submitted at most one job; it produced one result when it returned (then
\* exactly one download and one submission were made) and none when it ended
\* in an error.
C7_AtMostOneOfEach ==
    \A p \in Procs :
        (IsTranscribe(p) /\ Finished(p))
            => /\ calls[p].download <= 1
               /\ calls[p].upload <= 1
               /\ calls[p].submit <= 1
               /\ Returned(p) \/ Failed(p)
               /\ Returned(p) =>
                    /\ calls[p].download = 1 /\ calls[p].submit = 1
                    /\ DOMAIN response[p].body = TranscriptKeys
               /\ Failed(p) => response[p].body = EmptyDict

C7_Witness ==
    \E p, q \in Procs :
        /\ IsTranscribe(p) /\ Finished(p) /\ Returned(p) /\ calls[p].submit = 1
        /\ IsTranscribe(q) /\ Finished(q) /\ Failed(q) /\ calls[q].download = 1

(* ------------------------ C8 ------------------------------------------- *)
\* C8: the upload happens only after a successful download, the submission
\* only after a non-empty upload_url, the first status check only after a
\* non-empty id; an upload without upload_url or a submission without id ends
\* the invocation in an error with no later step made.
C8_StepsGated ==
    \A p \in Procs :
        /\ calls[p].upload >= 1 =>
              /\ calls[p].download = 1
              /\ output_path[p] \in DOMAIN files
        /\ calls[p].submit >= 1 => calls[p].upload = 1 /\ Truthy(upload_url[p])
        /\ calls[p].poll >= 1 => calls[p].submit = 1 /\ Truthy(transcript_id[p])
        /\ pc[p] \in {"submit", "poll", "sleep"} => Truthy(upload_url[p])
        /\ pc[p] \in {"poll", "sleep"} => Truthy(transcript_id[p])
        /\ (calls[p].upload >= 1 /\ ~Truthy(upload_url[p])) =>
              /\ Finished(p) /\ Failed(p)
              /\ calls[p].submit = 0 /\ calls[p].poll = 0
        /\ (calls[p].submit >= 1 /\ ~Truthy(transcript_id[p])) =>
              /\ Finished(p) /\ Failed(p)
              /\ calls[p].poll = 0
        /\ response[p] = HTTPException(500, "AssemblyAI upload error") =>
              calls[p].upload = 1 /\ calls[p].submit = 0
        /\ response[p] = HTTPException(500, "Transcription request failed") =>
              calls[p].submit = 1 /\ calls[p].poll = 0

C8_Witness ==
    \E p, q \in Procs :
        /\ response[p] = HTTPException(500, "AssemblyAI upload error")
        /\ calls[p].upload = 1
        /\ response[q] = HTTPException(500, "Transcription request failed")
        /\ calls[q].submit = 1

(* ------------------------ C9 ------------------------------------------- *)
\* C9 as stated: an invocation that made a status check and is no longer in
\* the loop observed a terminal status in its last check.
C9_LeavesOnlyOnTerminalStatus ==
    \A p \in Procs :
        (IsTranscribe(p) /\ calls[p].poll >= 1 /\ Finished(p))
            => Status(p) \in {Str("completed"), Str("error")}

\* C9 amended: a status check ends the loop only on a terminal status or when
\* the status request itself raises (the exception is not caught); it returns
\* a result iff it read "completed", fails with "Transcription failed" iff it
\* read "error", and on every other status goes to one wait followed by the
\* next check; the first check follows no wait, every later one exactly one.
C9_CheckStep(p) ==
    (pc[p] = "poll" /\ pc'[p] # "poll") =>
        /\ waited[p] = (IF calls[p].poll = 0 THEN 0 ELSE 1)
        /\ pc'[p] \in {"sleep", "done"}
        /\ response'[p].kind = "unhandled" =>
              /\ pc'[p] = "done"
              /\ status_resp'[p] = status_resp[p]
        /\ response'[p].kind # "unhandled" =>
              LET st == Get(status_resp'[p], "status", None) IN
              /\ Returned(p)' <=> st = Str("completed")
              /\ (response'[p] = HTTPException(500, "Transcription failed"))
                    <=> st = Str("error")
              /\ pc'[p] = "sleep" <=> st \notin {Str("completed"), Str("error")}
              /\ pc'[p] = "sleep" => response'[p] = NoResponse
              /\ pc'[p] = "done" <=> st \in {Str("completed"), Str("error")}

C9_WaitStep(p) ==
    (pc[p] = "sleep" /\ pc'[p] # "sleep") =>
        /\ pc'[p] = "poll"
        /\ waited[p] = 0 /\ waited'[p] = 1
        /\ response'[p] = response[p]
        /\ calls'[p] = calls[p]

C9_PollingProtocol ==
    [][\A p \in Procs : C9_CheckStep(p) /\ C9_WaitStep(p)]_vars

C9_Witness ==
    \E p \in Procs :
        /\ pc[p] = "poll" /\ calls[p].poll >= 1 /\ waited[p] = 1
        /\ Status(p) \notin {Str("completed"), Str("error")}

(* ------------------------ C10 ------------------------------------------ *)
\* C10: concurrent invocations share no mutable state: their temporary paths
\* are pairwise different, the file at a path and the bytes an invocation
\* uploads are the audio of its own video, the key never changes, and a step
\* of one invocation changes no other invocation's state and no other file.
C10_PathsPrivate ==
    /\ \A p, q \in Procs :
          (p # q /\ output_path[p] # "" /\ output_path[q] # "")
              => output_path[p] # output_path[q]
    /\ \A f \in DOMAIN files : \E p \in Procs : f = output_path[p]
    /\ \A p \in Procs :
          /\ output_path[p] \in DOMAIN files =>
                files[output_path[p]] = Audio(WatchUrl(video_id[p]))
          /\ calls[p].upload >= 1 => sent[p] = Audio(WatchUrl(video_id[p]))

C10_StepIsLocal ==
    /\ ASSEMBLYAI_API_KEY' = ASSEMBLYAI_API_KEY
    /\ \E p \in Procs :
          /\ \A q \in Procs \ {p} : Local(q)' = Local(q)
          /\ DOMAIN files \subseteq DOMAIN files'
          /\ \A f \in DOMAIN files' :
                f # output_path'[p] => (f \in DOMAIN files /\ files'[f] = files[f])

C10_NoSharedMutableState ==
    []C10_PathsPrivate /\ [][C10_StepIsLocal]_vars

C10_Witness ==
    \E p, q \in Procs :
        /\ p # q
        /\ video_id[p] # video_id[q]
        /\ calls[p].upload = 1 /\ calls[q].upload = 1
        /\ output_path[p] \in DOMAIN files /\ output_path[q] \in DOMAIN files

====
